---------------------------- MODULE Spec2Model ----------------------------
(***************************************************************************)
(* One run of one of the I/Q processing tools of ost_radio_tools:         *)
(*   calculate_amplitude, calculate_power, calculate_amplitude_sum,       *)
(*   calculate_power_spectrum, calculate_integrated_power_spectrum,       *)
(*   calculate_spectrogram.                                               *)
(* A state is the position of main() (pc), its locals, the resources it   *)
(* holds, the part of the input file read so far and everything handed to *)
(* the output files.                                                      *)
(*                                                                        *)
(* Numbers.  Samples are drawn from I/Q pairs whose magnitude is an       *)
(* integer, so every float/double operation of the tools (products, sums, *)
(* sqrt) is exact on them and is modelled by integer arithmetic.  A       *)
(* division whose result need not be an integer is kept as the pair       *)
(* num/den.  Transforms are modelled for block sizes dividing 4, where    *)
(* every twiddle factor is a power of i.                                  *)
(***************************************************************************)
EXTENDS Integers, Sequences, FiniteSets, TLC

(***************************************************************************)
(* Bounds of the model.                                                   *)
(***************************************************************************)
\* Largest input file, in float32 values.
MaxFloats == 9

(***************************************************************************)
(* Inputs.                                                                *)
(***************************************************************************)
Tools == {"amplitude", "power", "amplitude_sum", "power_spectrum",
          "integrated_power_spectrum", "spectrogram"}

\* An input file name that carries samples_per_block as its 5th "_" field,
\* and one that has no "_" at all.
GoodName == "gqrx_d_t_f_2_fc.raw"
PlainName == "data.raw"
FileNames == {GoodName, PlainName}

\* Numeric command line words.
NumberWords == {"-1", "0", "1", "2", "4"}

OutputTypeWords == {"sum", "raw", "both", "bogus"}

\* I/Q pairs a file may hold (in-phase, quadrature).
PairVals == {<<0, 0>>, <<1, 0>>, <<0, 1>>, <<3, 4>>}

(***************************************************************************)
(* libc: atoi, strtok/strstr on the file name.                            *)
(***************************************************************************)
\* atoi(): the leading decimal number of the word, 0 when there is none.
Atoi(s) ==
    CASE s = "-1" -> -1
      [] s = "0" -> 0
      [] s = "1" -> 1
      [] s = "2" -> 2
      [] s = "4" -> 4
      [] s = "2_fc.raw" -> 2
      [] OTHER -> 0

\* The "_"-separated fields of a base name, as strtok(name, "_") yields them.
Fields(name) ==
    IF name = GoodName THEN <<"gqrx", "d", "t", "f", "2", "fc.raw">>
    ELSE <<name>>

\* The rest of the name after its 4th "_" (strstr applied four times), or
\* "" when the name has fewer than four.
AfterFourthUnderscore(name) ==
    IF name = GoodName THEN "2_fc.raw" ELSE ""

HasFourUnderscores(name) == Len(Fields(name)) >= 5

\* A size_t holding the int v: a negative v wraps to a value above 2^63.
\* ULess(v, c) is (size_t)v < c for a small constant c.
ULess(v, c) == v >= 0 /\ v < c

(***************************************************************************)
(* Arithmetic helpers.                                                    *)
(***************************************************************************)
Min(a, b) == IF a < b THEN a ELSE b

RECURSIVE SumSeq(_)
SumSeq(s) == IF s = <<>> THEN 0 ELSE Head(s) + SumSeq(Tail(s))

\* sqrtf/sqrt: exact on a perfect square (every I*I + Q*Q of PairVals is
\* one); on any other number this is the integer part of the root.
Sqrt(p) == CHOOSE r \in 0..p : r * r <= p /\ p < (r + 1) * (r + 1)

\* Complex numbers are pairs <<re, im>>.
CAdd(a, b) == <<a[1] + b[1], a[2] + b[2]>>

\* z * i^q
MulIPow(z, q) ==
    CASE q % 4 = 0 -> z
      [] q % 4 = 1 -> <<-z[2], z[1]>>
      [] q % 4 = 2 -> <<-z[1], -z[2]>>
      [] q % 4 = 3 -> <<z[2], -z[1]>>

RECURSIVE CSum(_)
CSum(s) == IF s = <<>> THEN <<0, 0>> ELSE CAdd(Head(s), CSum(Tail(s)))


(***************************************************************************)
(* The per-block computations of the tools, as pure functions of the      *)
(* sample buffer b (interleaved I/Q, 1-based) and the block size n.       *)
(***************************************************************************)
\* Value written to a binary sink with fwrite(&x, sizeof(float), 1, f).
F32(v) == [t |-> "f32", v |-> v]
\* The spectrogram's header word, fwrite(&samples_per_block, sizeof(int), 1, f).
IntWord(v) == [t |-> "int", v |-> v]
\* 10*log10(p/16 + 1e-10): kept as the power it is the logarithm of.
DbOfSixteenths(p) == [t |-> "dB16", v |-> p]

\* I*I + Q*Q of sample i with the root left out.
AmplitudeWithoutRoot(b, i) == b[2 * i - 1] * b[2 * i - 1] + b[2 * i] * b[2 * i]
\* calculate_amplitude.c: sqrtf(I*I + Q*Q) of sample i (1-based).
AmplitudeOf(b, i) == Sqrt(b[2 * i - 1] * b[2 * i - 1] + b[2 * i] * b[2 * i])

\* calculate_power.c: I*I + Q*Q of sample i (1-based).
PowerOf(b, i) == b[2 * i - 1] * b[2 * i - 1] + b[2 * i] * b[2 * i]

\* calculate_power.c: block_sum after the sample loop, started from sum0.
PowerBlockSum(sum0, b, n) == sum0 + SumSeq([i \in 1..n |-> PowerOf(b, i)])

\* calculate_amplitude_sum.c: block_amplitude_sum after the sample loop.
AmplitudeBlockSum(b, n) == SumSeq([i \in 1..n |-> AmplitudeOf(b, i)])

\* I/Q samples as complex numbers: in[i] = I + j*Q.
ToComplex(b, n) == [i \in 1..n |-> <<b[2 * i - 1], b[2 * i]>>]

\* Unscaled forward DFT of the n complex values x (n divides 4):
\*   X[k] = SUM_m x[m] * exp(-2*pi*j*k*m/n),  exp(-2*pi*j/n) = i^(-(4/n)).
ForwardDft(x, n) ==
    [k \in 1..n |->
        CSum([m \in 1..n |->
            MulIPow(x[m], 4 - (((4 \div n) * (k - 1) * (m - 1)) % 4))])]

\* Re(z)^2 alone
RealPartSquared(z) == z[1] * z[1]
\* |z|^2
Norm2(z) == z[1] * z[1] + z[2] * z[2]

\* fftwf_plan_dft_c2r_1d(n, in, out): the input is read as the non-redundant
\* half in[0..n/2] of a Hermitian spectrum (the imaginary parts of in[0] and,
\* for even n, in[n/2] are not used); in[n/2+1..n-1] are never read.  The
\* output is the unscaled real inverse transform of the completed spectrum.
HermitianFull(x, n) ==
    [k \in 1..n |->
        IF k - 1 = 0 \/ 2 * (k - 1) = n THEN <<x[k][1], 0>>
        ELSE IF 2 * (k - 1) < n THEN x[k]
        ELSE <<x[n - k + 2][1], -x[n - k + 2][2]>>]

ComplexToReal(x, n) ==
    LET y == HermitianFull(x, n)
    IN  [m \in 1..n |->
            CSum([k \in 1..n |->
                MulIPow(y[k], ((4 \div n) * (k - 1) * (m - 1)) % 4)])[1]]

\* 2*cos(2*pi*i/m) for the m where it is an integer.
TwoCos(i, m) ==
    CASE m = 1 -> 2
      [] m = 2 -> IF i % 2 = 0 THEN 2 ELSE -2
      [] m = 3 -> IF i % 3 = 0 THEN 2 ELSE -1
      [] m = 4 -> IF i % 4 = 0 THEN 2 ELSE IF i % 4 = 2 THEN -2 ELSE 0

\* calculate_spectrogram.c: the Hanning window 0.5*(1 - cos(2*pi*i/(n-1))),
\* i = 0..n-1, in quarters (4*w[i]).
HanningQuarters(n) == [i \in 1..n |-> 2 - TwoCos(i - 1, n - 1)]

\* calculate_spectrogram.c process_block: in[i] = block[i] * window[i]
\* (a real value; the block is n floats, not n pairs).
WindowedInput(b, w, n) == [i \in 1..n |-> <<b[i] * w[i], 0>>]

\* calculate_spectrogram.c process_block: the row written for the
\* transformed block: bins 0..n/2.
SpectrogramRow(x, n) ==
    LET X == ForwardDft(x, n)
    IN  [k \in 1..(n \div 2 + 1) |-> DbOfSixteenths(Norm2(X[k]))]

\* calculate_power_spectrum.c: |X[k]|^2 for all n bins.
PowerSpectrumRow(x, n) ==
    LET X == ForwardDft(x, n)
    IN  [k \in 1..n |-> F32(Norm2(X[k]))]

\* calculate_integrated_power_spectrum.c process_block: out[i]*out[i].
IntegratedBinPower(x, n) ==
    LET o == ComplexToReal(x, n)
    IN  [k \in 1..n |-> o[k] * o[k]]

(***************************************************************************)
(* The input file as the reads deliver it.                                *)
(***************************************************************************)
\* cnt consecutive floats of a file of I/Q pairs, starting at a pair.
Flatten(ps, cnt) == [i \in 1..cnt |-> ps[(i + 1) \div 2][((i - 1) % 2) + 1]]
Chunks(cnt) == {Flatten(ps, cnt) : ps \in [1..((cnt + 1) \div 2) -> PairVals]}

\* What malloc leaves in a fresh buffer; no tool reads it.
Stale == 0 - 7


(***************************************************************************)
(* State.                                                                 *)
(***************************************************************************)
VARIABLES
    tool,               \* which program runs
    argc, argv,         \* argv[k] is C's argv[k], k >= 1; argc counts argv[0]
    file_len,           \* floats in the input file
    pc,                 \* position in main()
    status,             \* return value of main(), -1 while running
    exit_cause,         \* why main() returned
    samples_per_block,  \* the int atoi() gave (a size_t in some tools: ULess)
    output_type,        \* calculate_power.c: OUTPUT_SUM / OUTPUT_RAW / OUTPUT_BOTH
    held,               \* resources acquired and not released
    freed,              \* per resource, how many times it was released
    input,              \* the floats read from the input file so far
    buffer,             \* the sample buffer
    read_result,        \* what the last fread returned, -1 before the first
    num_blocks,         \* num_blocks / current_block / total_blocks
    number_of_blocks,   \* block count computed from the file size
    block_sum,          \* calculate_power.c: block_sum of the last block
    out_raw,            \* values handed to fwrite on the binary sink, in order
    out_sum,            \* lines handed to fprintf on the text sink, in order
    write_failed,       \* some fwrite/fprintf of a sample, bin, block or
                        \* line value reported failure
    fft_in,             \* the transform's input array
    window,             \* spectrogram window, in quarters
    power_spectrum      \* integrated power spectrum accumulator, num/den

vars == <<tool, argc, argv, file_len, pc, status, exit_cause,
          samples_per_block, output_type, held, freed, input, buffer,
          read_result, num_blocks, number_of_blocks, block_sum, out_raw,
          out_sum, write_failed, fft_in, window, power_spectrum>>

Resources == {"infile", "outfile", "sumfile", "block", "fft_in", "fft_out",
              "plan", "window", "config", "accum"}

\* Command lines.  argv[1..] of the run; calculate_power also takes the
\* "--output-type TYPE" pair anywhere after argv[0].
BaseArgLists ==
    {<<>>} \cup {<<f>> : f \in FileNames}
        \cup {<<f, n>> : f \in FileNames, n \in NumberWords}
        \cup {<<GoodName, "2", "2">>}

\* the pair placed after the first p words of l (after all, if fewer)
InsertPair(l, p, t) ==
    LET q == Min(p, Len(l))
    IN  SubSeq(l, 1, q) \o <<"--output-type", t>> \o SubSeq(l, q + 1, Len(l))

PowerArgLists ==
    BaseArgLists
        \cup {InsertPair(l, p, t) :
                l \in {<<GoodName>>, <<GoodName, "1">>, <<PlainName, "2">>},
                p \in 0..2, t \in OutputTypeWords}
        \cup {<<GoodName, "--output-type">>, <<"--output-type", "raw">>}
        \cup {<<GoodName, "--output-type", "raw", "--output-type", "both">>}

ArgLists(t) == IF t = "power" THEN PowerArgLists ELSE BaseArgLists

Init ==
    /\ tool \in Tools
    /\ argv \in ArgLists(tool)
    /\ argc = Len(argv) + 1
    /\ file_len \in 0..MaxFloats
    /\ pc = "args"
    /\ status = -1
    /\ exit_cause = "none"
    /\ samples_per_block = 0
    /\ output_type = "OUTPUT_SUM"
    /\ held = {}
    /\ freed = [r \in Resources |-> 0]
    /\ input = <<>>
    /\ buffer = <<>>
    /\ read_result = -1
    /\ num_blocks = 0
    /\ number_of_blocks = 0
    /\ block_sum = 0
    /\ out_raw = <<>>
    /\ out_sum = <<>>
    /\ write_failed = FALSE
    /\ fft_in = <<>>
    /\ window = <<>>
    /\ power_spectrum = <<>>

(***************************************************************************)
(* Steps shared by the tools.                                             *)
(***************************************************************************)
\* return code; from main().
Return(code, cause) ==
    /\ pc' = "done"
    /\ status' = code
    /\ exit_cause' = cause

Goto(label) ==
    /\ pc' = label
    /\ UNCHANGED <<status, exit_cause>>

\* fopen/malloc/... succeeded for the resources in got; then free/fclose/...
\* is called on the resources of rel, in order.
RECURSIVE CountIn(_, _)
CountIn(r, s) ==
    IF s = <<>> THEN 0
    ELSE (IF Head(s) = r THEN 1 ELSE 0) + CountIn(r, Tail(s))

SeqRange(s) == {s[i] : i \in 1..Len(s)}

AcquireRelease(got, rel) ==
    /\ held' = (held \cup got) \ SeqRange(rel)
    /\ freed' = [r \in Resources |-> freed[r] + CountIn(r, rel)]

\* malloc(n * ...) with the size computed in size_t: a negative n wraps to
\* a request no allocator grants; any other request may fail or succeed.
AllocOutcomes(n) == IF n < 0 THEN {FALSE} ELSE BOOLEAN

\* fread on the input file, asking for want floats: the file delivers what
\* it still has, up to want, into the front of the buffer.
FreadData(want, itemwise) ==
    LET got == Min(want, file_len - Len(input))
    IN  \E data \in Chunks(got) :
            /\ input' = input \o data
            /\ buffer' = data \o SubSeq(buffer, got + 1, Len(buffer))
            /\ read_result' = IF itemwise
                              THEN (IF got = want THEN 1 ELSE 0)
                              ELSE got

\* fread(buf, sizeof(float), want, f): the number of floats read.
FreadFloatsOnceFilled(want) ==
    LET got == Min(want, file_len - Len(input))
    IN  \E data \in Chunks(got) :
            /\ input' = input \o data
            /\ buffer' = IF input = <<>>
                          THEN data \o SubSeq(buffer, got + 1, Len(buffer))
                          ELSE buffer
            /\ read_result' = got
FreadFloats(want) == FreadData(want, FALSE)

\* fread(buf, sizeof(float) * want, 1, f): 1 for a whole item, else 0.
FreadItem(want) == FreadData(want, TRUE)

\* The loop conditions on the count fread returned: a whole block was read.
AnyRead(got, want) == got > 0
FullRead(got, want) == got = want

\* A buffer of n elements as malloc returns it.
Fresh(n) == [i \in 1..n |-> Stale]

cfgVars == <<tool, argc, argv, file_len, samples_per_block, output_type>>
resVars == <<held, freed>>
readVars == <<input, buffer, read_result>>
loopVars == <<num_blocks, number_of_blocks, block_sum>>
outVars == <<out_raw, out_sum, write_failed>>
fftVars == <<fft_in, window, power_spectrum>>


(***************************************************************************)
(* calculate_amplitude.c                                                  *)
(***************************************************************************)
\* Length of a modelled name, strlen().
StrLen(name) == IF name = GoodName THEN 19 ELSE 8

\* strlen of the base name cut to the copy buffer and without ".raw".
LenWithoutExt(name, bufsize) == Min(StrLen(name), bufsize - 1) - 4

MAX_FILENAME == 256
MAX_OUTPUT_FILENAME == 512

\* The samples_per_block of the strtok tools: argv[2] when argc == 3, else
\* the 5th "_" field of the file name; ok is FALSE when the name has fewer
\* than five fields.
StrtokSpb ==
    IF argc = 3 THEN [ok |-> TRUE, v |-> Atoi(argv[2])]
    ELSE IF Len(Fields(argv[1])) >= 5
         THEN [ok |-> TRUE, v |-> Atoi(Fields(argv[1])[5])]
         ELSE [ok |-> FALSE, v |-> 0]

AmpArgs ==
    /\ tool = "amplitude" /\ pc = "args"
    /\ IF argc < 2 \/ argc > 3 THEN
            Return(1, "usage") /\ UNCHANGED samples_per_block
       ELSE IF ~StrtokSpb.ok THEN
            Return(1, "no_field") /\ UNCHANGED samples_per_block
       ELSE /\ samples_per_block' = StrtokSpb.v
            /\ IF ULess(StrtokSpb.v, 2) THEN Return(1, "invalid_spb")
               ELSE Goto("open_in")
    /\ UNCHANGED <<tool, argc, argv, file_len, output_type>>
    /\ UNCHANGED <<resVars, readVars, loopVars, outVars, fftVars>>

AmpOpenInput ==
    /\ tool = "amplitude" /\ pc = "open_in"
    /\ \E ok \in BOOLEAN :
        IF ok THEN AcquireRelease({"infile"}, <<>>) /\ Goto("open_out")
        ELSE Return(1, "open_in") /\ UNCHANGED resVars
    /\ UNCHANGED <<cfgVars, readVars, loopVars, outVars, fftVars>>

AmpOpenOutput ==
    /\ tool = "amplitude" /\ pc = "open_out"
    /\ IF 10 + LenWithoutExt(argv[1], MAX_FILENAME) + 4 + 1 > MAX_OUTPUT_FILENAME
       THEN Return(1, "name_too_long") /\ UNCHANGED resVars
       ELSE \E ok \in BOOLEAN :
            IF ok THEN AcquireRelease({"outfile"}, <<>>) /\ Goto("alloc")
            ELSE AcquireRelease({}, <<"infile">>) /\ Return(1, "open_out")
    /\ UNCHANGED <<cfgVars, readVars, loopVars, outVars, fftVars>>

AmpAlloc ==
    /\ tool = "amplitude" /\ pc = "alloc"
    /\ \E ok \in AllocOutcomes(samples_per_block) :
        IF ok THEN
            /\ AcquireRelease({"block"}, <<>>)
            /\ buffer' = Fresh(2 * samples_per_block)
            /\ Goto("read")
        ELSE
            /\ AcquireRelease({}, <<"infile", "outfile">>)
            /\ Return(1, "alloc")
            /\ UNCHANGED buffer
    /\ UNCHANGED <<cfgVars, input, read_result, loopVars, outVars, fftVars>>

\* the fread and the break of the while (1) loop
AmpRead ==
    /\ tool = "amplitude" /\ pc = "read"
    /\ FreadFloats(2 * samples_per_block)
    /\ IF ~FullRead(read_result', 2 * samples_per_block) THEN Goto("cleanup")
       ELSE Goto("process")
    /\ UNCHANGED <<cfgVars, resVars, loopVars, outVars, fftVars>>

\* the sample loop and num_blocks++
AmpProcess ==
    /\ tool = "amplitude" /\ pc = "process"
    /\ out_raw' = out_raw \o
            [i \in 1..samples_per_block |-> F32(AmplitudeOf(buffer, i))]
    /\ \E wok \in BOOLEAN : write_failed' = (write_failed \/ ~wok)
    /\ num_blocks' = num_blocks + 1
    /\ Goto("read")
    /\ UNCHANGED <<cfgVars, resVars, readVars, number_of_blocks, block_sum,
                   out_sum, fftVars>>

AmpCleanup ==
    /\ tool = "amplitude" /\ pc = "cleanup"
    /\ AcquireRelease({}, <<"block", "infile", "outfile">>)
    /\ Return(0, "end_of_stream")
    /\ UNCHANGED <<cfgVars, readVars, loopVars, outVars, fftVars>>

Amplitude ==
    \/ AmpArgs \/ AmpOpenInput \/ AmpOpenOutput \/ AmpAlloc
    \/ AmpRead \/ AmpProcess \/ AmpCleanup

(***************************************************************************)
(* calculate_power.c                                                      *)
(***************************************************************************)
\* parse_output_type with "both" as the fallback
ParseOutputTypeDefaultBoth(type_str) ==
    CASE type_str = "sum" -> "OUTPUT_SUM"
      [] type_str = "raw" -> "OUTPUT_RAW"
      [] OTHER -> "OUTPUT_BOTH"

\* parse_output_type(): "sum", "raw", "both"; anything else is OUTPUT_SUM
parse_output_type(type_str) ==
    CASE type_str = "sum" -> "OUTPUT_SUM"
      [] type_str = "raw" -> "OUTPUT_RAW"
      [] type_str = "both" -> "OUTPUT_BOTH"
      [] OTHER -> "OUTPUT_SUM"

WantsRaw(t) == t \in {"OUTPUT_RAW", "OUTPUT_BOTH"}
WantsSum(t) == t \in {"OUTPUT_SUM", "OUTPUT_BOTH"}

\* Indices i in 1..argc-1 with argv[i] == "--output-type" && i + 1 < argc.
OptionPlaces(av, ac) ==
    {i \in 1..(ac - 1) : av[i] = "--output-type" /\ i + 1 < ac}

\* for (j = i; j < argc - 2; j++) argv[j] = argv[j + 2];
RemovePair(av, ac, i) ==
    [j \in 1..Len(av) |-> IF j >= i /\ j < ac - 2 THEN av[j + 2] ELSE av[j]]

SetMin(S) == CHOOSE x \in S : \A y \in S : x <= y

\* usage check and the --output-type loop
PowArgs ==
    /\ tool = "power" /\ pc = "args"
    /\ IF argc < 2 THEN
            Return(1, "usage") /\ UNCHANGED <<argc, argv, output_type>>
       ELSE IF OptionPlaces(argv, argc) = {} THEN
            Goto("open_in") /\ UNCHANGED <<argc, argv, output_type>>
       ELSE LET i == SetMin(OptionPlaces(argv, argc))
            IN  /\ output_type' = parse_output_type(argv[i + 1])
                /\ argv' = RemovePair(argv, argc, i)
                /\ argc' = argc - 2
                /\ Goto("open_in")
    /\ UNCHANGED <<tool, file_len, samples_per_block>>
    /\ UNCHANGED <<resVars, readVars, loopVars, outVars, fftVars>>

PowOpenInput ==
    /\ tool = "power" /\ pc = "open_in"
    /\ \E ok \in BOOLEAN :
        IF ok THEN AcquireRelease({"infile"}, <<>>) /\ Goto("spb")
        ELSE Return(1, "open_in") /\ UNCHANGED resVars
    /\ UNCHANGED <<cfgVars, readVars, loopVars, outVars, fftVars>>

\* The samples_per_block of the strstr tools, taken from the file name:
\* atoi of what follows the 4th "_", 0 when there is none.
StrstrSpb(name) ==
    IF HasFourUnderscores(name) THEN Atoi(AfterFourthUnderscore(name)) ELSE 0

PowSpb ==
    /\ tool = "power" /\ pc = "spb"
    /\ samples_per_block' = IF argc > 2 THEN Atoi(argv[2])
                            ELSE StrstrSpb(argv[1])
    /\ IF samples_per_block' = 0
       THEN AcquireRelease({}, <<"infile">>) /\ Return(1, "invalid_spb")
       ELSE Goto("alloc") /\ UNCHANGED resVars
    /\ UNCHANGED <<tool, argc, argv, file_len, output_type>>
    /\ UNCHANGED <<readVars, loopVars, outVars, fftVars>>

PowAlloc ==
    /\ tool = "power" /\ pc = "alloc"
    /\ \E ok \in AllocOutcomes(samples_per_block) :
        IF ok THEN
            /\ AcquireRelease({"block"}, <<>>)
            /\ buffer' = Fresh(2 * samples_per_block)
            /\ Goto("open_out")
        ELSE
            /\ AcquireRelease({}, <<"infile">>)
            /\ Return(1, "alloc")
            /\ UNCHANGED buffer
    /\ UNCHANGED <<cfgVars, input, read_result, loopVars, outVars, fftVars>>

\* the two "open output files" blocks
PowOpenOutputs ==
    /\ tool = "power" /\ pc = "open_out"
    /\ \E rawok \in (IF WantsRaw(output_type) THEN BOOLEAN ELSE {TRUE}),
          sumok \in (IF WantsSum(output_type) THEN BOOLEAN ELSE {TRUE}) :
        LET rawgot == IF WantsRaw(output_type) THEN {"outfile"} ELSE {}
        IN  IF ~rawok THEN
                /\ AcquireRelease({}, <<"block", "infile">>)
                /\ Return(1, "open_out")
            ELSE IF ~sumok THEN
                /\ AcquireRelease(rawgot,
                        (IF rawgot # {} THEN <<"outfile">> ELSE <<>>)
                            \o <<"block", "infile">>)
                /\ Return(1, "open_sum")
            ELSE
                /\ AcquireRelease(
                        rawgot \cup (IF WantsSum(output_type)
                                     THEN {"sumfile"} ELSE {}), <<>>)
                /\ Goto("read")
    /\ UNCHANGED <<cfgVars, readVars, loopVars, outVars, fftVars>>

\* the condition of the while loop
PowRead ==
    /\ tool = "power" /\ pc = "read"
    /\ FreadFloats(2 * samples_per_block)
    /\ IF FullRead(read_result', 2 * samples_per_block) THEN Goto("process")
       ELSE Goto("cleanup")
    /\ UNCHANGED <<cfgVars, resVars, loopVars, outVars, fftVars>>

\* fprintf(sumfile, "%zu\t%f\n", num_blocks, block_sum)
PowerSumLineOneBased(blocks, sum) ==
    [index |-> blocks + 1, num |-> sum, den |-> 1, sep |-> "\t"]
PowerSumLine(blocks, sum) ==
    [index |-> blocks, num |-> sum, den |-> 1, sep |-> "\t"]

\* float block_sum = 0.0f; at the top of the loop body
BlockSumStartCarried(prev) == prev
BlockSumStart(prev) == 0

\* the body of the while loop
PowProcess ==
    /\ tool = "power" /\ pc = "process"
    /\ block_sum' = IF WantsSum(output_type)
                    THEN PowerBlockSum(BlockSumStart(block_sum), buffer,
                                       samples_per_block)
                    ELSE BlockSumStart(block_sum)
    /\ out_raw' = IF WantsRaw(output_type)
                  THEN out_raw \o [i \in 1..samples_per_block |->
                                        F32(PowerOf(buffer, i))]
                  ELSE out_raw
    /\ out_sum' = IF WantsSum(output_type)
                  THEN Append(out_sum, PowerSumLine(num_blocks, block_sum'))
                  ELSE out_sum
    /\ \E wok \in BOOLEAN : write_failed' = (write_failed \/ ~wok)
    /\ num_blocks' = num_blocks + 1
    /\ Goto("read")
    /\ UNCHANGED <<cfgVars, resVars, readVars, number_of_blocks, fftVars>>

PowCleanup ==
    /\ tool = "power" /\ pc = "cleanup"
    /\ AcquireRelease({},
            <<"infile">>
            \o (IF "outfile" \in held THEN <<"outfile">> ELSE <<>>)
            \o (IF "sumfile" \in held THEN <<"sumfile">> ELSE <<>>)
            \o <<"block">>)
    /\ Return(0, "end_of_stream")
    /\ UNCHANGED <<cfgVars, readVars, loopVars, outVars, fftVars>>

Power ==
    \/ PowArgs \/ PowOpenInput \/ PowSpb \/ PowAlloc \/ PowOpenOutputs
    \/ PowRead \/ PowProcess \/ PowCleanup

(***************************************************************************)
(* calculate_amplitude_sum.c                                              *)
(***************************************************************************)
\* x / d on integers in C: dividing by zero is undefined; the builds either
\* trap (SIGFPE) or go on with a quotient of 0.
DivOutcomes(d) == IF d = 0 THEN {"trap", "zero"} ELSE {"value"}

\* total_file_size / sizeof(float) / samples_per_block / 2, with
\* total_file_size = 4 * file_len.
BlocksInFile(len, n, outcome) ==
    IF outcome = "value" THEN ((((4 * len) \div 4) \div n) \div 2) ELSE 0

Crash(cause) ==
    /\ pc' = "crashed"
    /\ exit_cause' = cause
    /\ UNCHANGED status

SumArgs ==
    /\ tool = "amplitude_sum" /\ pc = "args"
    /\ IF argc < 2 \/ argc > 3 THEN
            Return(1, "usage") /\ UNCHANGED samples_per_block
       ELSE IF ~StrtokSpb.ok THEN
            Return(1, "no_field") /\ UNCHANGED samples_per_block
       ELSE samples_per_block' = StrtokSpb.v /\ Goto("alloc")
    /\ UNCHANGED <<tool, argc, argv, file_len, output_type>>
    /\ UNCHANGED <<resVars, readVars, loopVars, outVars, fftVars>>

SumAlloc ==
    /\ tool = "amplitude_sum" /\ pc = "alloc"
    /\ \E ok \in AllocOutcomes(samples_per_block) :
        IF ok THEN
            /\ AcquireRelease({"block"}, <<>>)
            /\ buffer' = Fresh(2 * samples_per_block)
            /\ Goto("open_in")
        ELSE
            /\ Return(1, "alloc")
            /\ UNCHANGED <<resVars, buffer>>
    /\ UNCHANGED <<cfgVars, input, read_result, loopVars, outVars, fftVars>>

\* fopen of the input, then fseek/ftell/rewind and the block count
SumOpenInput ==
    /\ tool = "amplitude_sum" /\ pc = "open_in"
    /\ \E ok \in BOOLEAN, d \in DivOutcomes(samples_per_block) :
        IF ~ok THEN
            /\ AcquireRelease({}, <<"block">>)
            /\ Return(1, "open_in")
            /\ UNCHANGED number_of_blocks
        ELSE IF d = "trap" THEN
            /\ AcquireRelease({"infile"}, <<>>)
            /\ Crash("sigfpe")
            /\ UNCHANGED number_of_blocks
        ELSE
            /\ AcquireRelease({"infile"}, <<>>)
            /\ number_of_blocks' = BlocksInFile(file_len, samples_per_block, d)
            /\ Goto("open_out")
    /\ UNCHANGED <<cfgVars, readVars, num_blocks, block_sum, outVars, fftVars>>

SumOpenOutput ==
    /\ tool = "amplitude_sum" /\ pc = "open_out"
    /\ \E ok \in BOOLEAN :
        IF ok THEN AcquireRelease({"outfile"}, <<>>) /\ Goto("read")
        ELSE AcquireRelease({}, <<"infile", "block">>) /\ Return(1, "open_out")
    /\ UNCHANGED <<cfgVars, readVars, loopVars, outVars, fftVars>>

\* the loop condition, the fread and its check
SumRead ==
    /\ tool = "amplitude_sum" /\ pc = "read"
    /\ IF num_blocks < number_of_blocks THEN
            /\ FreadItem(2 * samples_per_block)
            /\ IF read_result' # 1 THEN
                    /\ AcquireRelease({}, <<"outfile", "infile", "block">>)
                    /\ Return(1, "short_read")
               ELSE Goto("process") /\ UNCHANGED resVars
       ELSE Goto("cleanup") /\ UNCHANGED <<resVars, readVars>>
    /\ UNCHANGED <<cfgVars, loopVars, outVars, fftVars>>

\* the sample loop, the fprintf and current_block++
SumProcess ==
    /\ tool = "amplitude_sum" /\ pc = "process"
    /\ out_sum' = Append(out_sum,
            [index |-> num_blocks,
             num |-> AmplitudeBlockSum(buffer, samples_per_block),
             den |-> samples_per_block, sep |-> " "])
    /\ \E wok \in BOOLEAN : write_failed' = (write_failed \/ ~wok)
    /\ num_blocks' = num_blocks + 1
    /\ Goto("read")
    /\ UNCHANGED <<cfgVars, resVars, readVars, number_of_blocks, block_sum,
                   out_raw, fftVars>>

SumCleanup ==
    /\ tool = "amplitude_sum" /\ pc = "cleanup"
    /\ AcquireRelease({}, <<"outfile", "infile", "block">>)
    /\ Return(0, "loop_bound")
    /\ UNCHANGED <<cfgVars, readVars, loopVars, outVars, fftVars>>

AmplitudeSum ==
    \/ SumArgs \/ SumAlloc \/ SumOpenInput \/ SumOpenOutput
    \/ SumRead \/ SumProcess \/ SumCleanup

(***************************************************************************)
(* calculate_power_spectrum.c                                             *)
(***************************************************************************)
\* fftw_plan_dft_1d and its siblings: NULL for a size that is not
\* positive, and NULL when the planner fails.
PlanOutcomes(n) == IF n <= 0 THEN {FALSE} ELSE BOOLEAN

PsArgs ==
    /\ tool = "power_spectrum" /\ pc = "args"
    /\ IF argc < 2 \/ argc > 3 THEN
            Return(1, "usage") /\ UNCHANGED samples_per_block
       ELSE IF ~StrtokSpb.ok THEN
            Return(1, "no_field") /\ UNCHANGED samples_per_block
       ELSE samples_per_block' = StrtokSpb.v /\ Goto("alloc")
    /\ UNCHANGED <<tool, argc, argv, file_len, output_type>>
    /\ UNCHANGED <<resVars, readVars, loopVars, outVars, fftVars>>

\* malloc of the sample buffer, the two fftw_malloc, fftw_plan_dft_1d
PsAlloc ==
    /\ tool = "power_spectrum" /\ pc = "alloc"
    /\ \E bok \in AllocOutcomes(samples_per_block),
          iok \in AllocOutcomes(samples_per_block),
          ook \in AllocOutcomes(samples_per_block),
          pok \in PlanOutcomes(samples_per_block) :
        IF ~bok THEN
            /\ Return(1, "alloc")
            /\ UNCHANGED <<resVars, buffer>>
        ELSE IF ~iok \/ ~ook THEN
            /\ AcquireRelease(
                    {"block"} \cup (IF iok THEN {"fft_in"} ELSE {})
                              \cup (IF ook THEN {"fft_out"} ELSE {}),
                    <<"block">>)
            /\ Return(1, "alloc_fft")
            /\ UNCHANGED buffer
        ELSE
            /\ AcquireRelease(
                    {"block", "fft_in", "fft_out"}
                        \cup (IF pok THEN {"plan"} ELSE {}), <<>>)
            /\ buffer' = Fresh(2 * samples_per_block)
            /\ Goto("open_in")
    /\ UNCHANGED <<cfgVars, input, read_result, loopVars, outVars, fftVars>>

\* fftw_destroy_plan(plan) does nothing for a NULL plan
DestroyPlan == IF "plan" \in held THEN <<"plan">> ELSE <<>>

PsOpenInput ==
    /\ tool = "power_spectrum" /\ pc = "open_in"
    /\ \E ok \in BOOLEAN, d \in DivOutcomes(samples_per_block) :
        IF ~ok THEN
            /\ AcquireRelease({}, <<"fft_in", "fft_out">> \o DestroyPlan
                                    \o <<"block">>)
            /\ Return(1, "open_in")
            /\ UNCHANGED number_of_blocks
        ELSE IF d = "trap" THEN
            /\ AcquireRelease({"infile"}, <<>>)
            /\ Crash("sigfpe")
            /\ UNCHANGED number_of_blocks
        ELSE
            /\ AcquireRelease({"infile"}, <<>>)
            /\ number_of_blocks' = BlocksInFile(file_len, samples_per_block, d)
            /\ Goto("open_out")
    /\ UNCHANGED <<cfgVars, readVars, num_blocks, block_sum, outVars, fftVars>>

PsOpenOutput ==
    /\ tool = "power_spectrum" /\ pc = "open_out"
    /\ \E ok \in BOOLEAN :
        IF ok THEN AcquireRelease({"outfile"}, <<>>) /\ Goto("read")
        ELSE /\ AcquireRelease({}, <<"infile", "fft_in", "fft_out">>
                                    \o DestroyPlan \o <<"block">>)
             /\ Return(1, "open_out")
    /\ UNCHANGED <<cfgVars, readVars, loopVars, outVars, fftVars>>

PsRead ==
    /\ tool = "power_spectrum" /\ pc = "read"
    /\ IF num_blocks < number_of_blocks THEN
            /\ FreadItem(2 * samples_per_block)
            /\ IF read_result' # 1 THEN
                    /\ AcquireRelease({}, <<"outfile", "infile", "fft_in",
                                            "fft_out">> \o DestroyPlan
                                            \o <<"block">>)
                    /\ Return(1, "short_read")
               ELSE Goto("process") /\ UNCHANGED resVars
       ELSE Goto("cleanup") /\ UNCHANGED <<resVars, readVars>>
    /\ UNCHANGED <<cfgVars, loopVars, outVars, fftVars>>

\* the copy to fft_input, fftw_execute, the power loop, current_block++;
\* fftw_execute on a NULL plan dereferences it.
PsProcess ==
    /\ tool = "power_spectrum" /\ pc = "process"
    /\ fft_in' = ToComplex(buffer, samples_per_block)
    /\ IF "plan" \notin held THEN
            /\ Crash("null_plan")
            /\ UNCHANGED <<out_raw, write_failed, num_blocks>>
       ELSE /\ out_raw' = out_raw \o PowerSpectrumRow(fft_in', samples_per_block)
            /\ \E wok \in BOOLEAN : write_failed' = (write_failed \/ ~wok)
            /\ num_blocks' = num_blocks + 1
            /\ Goto("read")
    /\ UNCHANGED <<cfgVars, resVars, readVars, number_of_blocks, block_sum,
                   out_sum, window, power_spectrum>>

PsCleanup ==
    /\ tool = "power_spectrum" /\ pc = "cleanup"
    /\ AcquireRelease({}, <<"outfile", "infile", "fft_in", "fft_out">>
                            \o DestroyPlan \o <<"block">>)
    /\ Return(0, "loop_bound")
    /\ UNCHANGED <<cfgVars, readVars, loopVars, outVars, fftVars>>

PowerSpectrum ==
    \/ PsArgs \/ PsAlloc \/ PsOpenInput \/ PsOpenOutput
    \/ PsRead \/ PsProcess \/ PsCleanup

(***************************************************************************)
(* calculate_integrated_power_spectrum.c                                  *)
(***************************************************************************)
\* samples_per_block: the file name first, argv[2] only when the name gave
\* nothing positive.
IpsSpb ==
    LET fromName == StrstrSpb(argv[1])
    IN  IF fromName <= 0 /\ argc > 2 THEN Atoi(argv[2]) ELSE fromName

IpsArgs ==
    /\ tool = "integrated_power_spectrum" /\ pc = "args"
    /\ IF argc < 2 THEN
            Return(1, "usage") /\ UNCHANGED samples_per_block
       ELSE /\ samples_per_block' = IpsSpb
            /\ IF IpsSpb <= 0 THEN Return(1, "invalid_spb")
               ELSE Goto("init_fft")
    /\ UNCHANGED <<tool, argc, argv, file_len, output_type>>
    /\ UNCHANGED <<resVars, readVars, loopVars, outVars, fftVars>>

\* init_fft() and the check of its result in main()
IpsInitFft ==
    /\ tool = "integrated_power_spectrum" /\ pc = "init_fft"
    /\ \E cok \in BOOLEAN,
          iok \in AllocOutcomes(samples_per_block),
          ook \in AllocOutcomes(samples_per_block),
          pok \in PlanOutcomes(samples_per_block) :
        IF ~cok THEN
            Return(1, "alloc_config") /\ UNCHANGED resVars
        ELSE IF ~iok \/ ~ook THEN
            /\ AcquireRelease(
                    {"config"} \cup (IF iok THEN {"fft_in"} ELSE {})
                               \cup (IF ook THEN {"fft_out"} ELSE {}),
                    (IF iok THEN <<"fft_in">> ELSE <<>>)
                        \o (IF ook THEN <<"fft_out">> ELSE <<>>)
                        \o <<"config">>)
            /\ Return(1, "alloc_fft")
        ELSE IF ~pok THEN
            /\ AcquireRelease({"config", "fft_in", "fft_out"},
                              <<"fft_in", "fft_out", "config">>)
            /\ Return(1, "plan")
        ELSE
            /\ AcquireRelease({"config", "fft_in", "fft_out", "plan"}, <<>>)
            /\ Goto("alloc")
    /\ UNCHANGED <<cfgVars, readVars, loopVars, outVars, fftVars>>

\* cleanup_fft(config) for a config that is not NULL
CleanupFft == <<"plan", "fft_in", "fft_out", "config">>

\* calloc(samples_per_block, sizeof(float))
ZeroAccumulator(n) == [i \in 1..n |-> [num |-> 0, den |-> 1]]

\* malloc of iq_data and calloc of power_spectrum
IpsAlloc ==
    /\ tool = "integrated_power_spectrum" /\ pc = "alloc"
    /\ \E bok \in AllocOutcomes(samples_per_block),
          aok \in AllocOutcomes(samples_per_block) :
        IF ~bok \/ ~aok THEN
            /\ AcquireRelease(
                    (IF bok THEN {"block"} ELSE {})
                        \cup (IF aok THEN {"accum"} ELSE {}),
                    CleanupFft \o (IF bok THEN <<"block">> ELSE <<>>)
                               \o (IF aok THEN <<"accum">> ELSE <<>>))
            /\ Return(1, "alloc")
            /\ UNCHANGED <<buffer, power_spectrum>>
        ELSE
            /\ AcquireRelease({"block", "accum"}, <<>>)
            /\ buffer' = Fresh(2 * samples_per_block)
            /\ power_spectrum' = ZeroAccumulator(samples_per_block)
            /\ Goto("open_in")
    /\ UNCHANGED <<cfgVars, input, read_result, loopVars, outVars, fft_in,
                   window>>

IpsOpenInput ==
    /\ tool = "integrated_power_spectrum" /\ pc = "open_in"
    /\ \E ok \in BOOLEAN :
        IF ok THEN AcquireRelease({"infile"}, <<>>) /\ Goto("read")
        ELSE /\ AcquireRelease({}, CleanupFft \o <<"block", "accum">>)
             /\ Return(1, "open_in")
    /\ UNCHANGED <<cfgVars, readVars, loopVars, outVars, fftVars>>

\* the condition of the while loop
IpsRead ==
    /\ tool = "integrated_power_spectrum" /\ pc = "read"
    /\ FreadFloats(2 * samples_per_block)
    /\ IF FullRead(read_result', 2 * samples_per_block) THEN Goto("process")
       ELSE Goto("average")
    /\ UNCHANGED <<cfgVars, resVars, loopVars, outVars, fftVars>>

\* power_spectrum[i] += power, for every bin
Accumulate(acc, pw) ==
    [i \in 1..Len(acc) |-> [num |-> acc[i].num + pw[i], den |-> acc[i].den]]

\* process_block() and total_blocks++
IpsProcess ==
    /\ tool = "integrated_power_spectrum" /\ pc = "process"
    /\ fft_in' = ToComplex(buffer, samples_per_block)
    /\ power_spectrum' = Accumulate(power_spectrum,
                            IntegratedBinPower(fft_in', samples_per_block))
    /\ num_blocks' = num_blocks + 1
    /\ Goto("read")
    /\ UNCHANGED <<cfgVars, resVars, readVars, number_of_blocks, block_sum,
                   outVars, window>>

\* if (total_blocks > 0) power_spectrum[i] /= total_blocks, for every bin
AverageOverBins(acc, blocks) ==
    IF blocks > 0
    THEN [i \in 1..Len(acc) |->
            [num |-> acc[i].num, den |-> acc[i].den * Len(acc)]]
    ELSE acc
\* the division without the total_blocks > 0 guard
AverageUnguarded(acc, blocks) ==
    [i \in 1..Len(acc) |-> [num |-> acc[i].num, den |-> acc[i].den * blocks]]
Average(acc, blocks) ==
    IF blocks > 0
    THEN [i \in 1..Len(acc) |-> [num |-> acc[i].num, den |-> acc[i].den * blocks]]
    ELSE acc

IpsAverage ==
    /\ tool = "integrated_power_spectrum" /\ pc = "average"
    /\ power_spectrum' = Average(power_spectrum, num_blocks)
    /\ Goto("save")
    /\ UNCHANGED <<cfgVars, resVars, readVars, loopVars, outVars, fft_in,
                   window>>

\* fprintf(out_fp, "%d %e\n", i, power_spectrum[i]), for every bin
SpectrumLines(acc) ==
    [i \in 1..Len(acc) |->
        [index |-> i - 1, num |-> acc[i].num, den |-> acc[i].den, sep |-> " "]]

\* fopen of the output, the lines, the cleanup
IpsSave ==
    /\ tool = "integrated_power_spectrum" /\ pc = "save"
    /\ \E ok \in BOOLEAN, wok \in BOOLEAN :
        IF ~ok THEN
            /\ AcquireRelease({}, CleanupFft \o <<"block", "accum", "infile">>)
            /\ Return(1, "open_out")
            /\ UNCHANGED outVars
        ELSE
            /\ out_sum' = out_sum \o SpectrumLines(power_spectrum)
            /\ write_failed' = (write_failed \/ ~wok)
            /\ AcquireRelease({"outfile"},
                    <<"infile", "outfile">> \o CleanupFft
                        \o <<"block", "accum">>)
            /\ Return(0, "end_of_stream")
            /\ UNCHANGED out_raw
    /\ UNCHANGED <<cfgVars, readVars, loopVars, fftVars>>

IntegratedPowerSpectrum ==
    \/ IpsArgs \/ IpsInitFft \/ IpsAlloc \/ IpsOpenInput
    \/ IpsRead \/ IpsProcess \/ IpsAverage \/ IpsSave

(***************************************************************************)
(* calculate_spectrogram.c                                                *)
(***************************************************************************)
SpArgs ==
    /\ tool = "spectrogram" /\ pc = "args"
    /\ IF argc < 2 \/ argc > 3 THEN
            Return(1, "usage") /\ UNCHANGED samples_per_block
       ELSE IF ~StrtokSpb.ok THEN
            Return(1, "no_field") /\ UNCHANGED samples_per_block
       ELSE /\ samples_per_block' = StrtokSpb.v
            /\ IF ULess(StrtokSpb.v, 2) THEN Return(1, "invalid_spb")
               ELSE Goto("open_in")
    /\ UNCHANGED <<tool, argc, argv, file_len, output_type>>
    /\ UNCHANGED <<resVars, readVars, loopVars, outVars, fftVars>>

SpOpenInput ==
    /\ tool = "spectrogram" /\ pc = "open_in"
    /\ \E ok \in BOOLEAN :
        IF ok THEN AcquireRelease({"infile"}, <<>>) /\ Goto("open_out")
        ELSE Return(1, "open_in") /\ UNCHANGED resVars
    /\ UNCHANGED <<cfgVars, readVars, loopVars, outVars, fftVars>>

\* the output name, its fopen and the header word
SpOpenOutput ==
    /\ tool = "spectrogram" /\ pc = "open_out"
    /\ IF 12 + LenWithoutExt(argv[1], MAX_FILENAME) + 4 + 1 > MAX_OUTPUT_FILENAME
       THEN Return(1, "name_too_long") /\ UNCHANGED <<resVars, outVars>>
       ELSE \E ok \in BOOLEAN :
            IF ok THEN
                /\ AcquireRelease({"outfile"}, <<>>)
                /\ out_raw' = Append(out_raw, IntWord(samples_per_block))
                /\ UNCHANGED <<out_sum, write_failed>>
                /\ Goto("init_fft")
            ELSE
                /\ AcquireRelease({}, <<"infile">>)
                /\ Return(1, "open_out")
                /\ UNCHANGED outVars
    /\ UNCHANGED <<cfgVars, readVars, loopVars, fftVars>>

\* init_fftw() and the check of its result in main()
SpInitFftw ==
    /\ tool = "spectrogram" /\ pc = "init_fft"
    /\ \E cok \in BOOLEAN,
          iok \in AllocOutcomes(samples_per_block),
          ook \in AllocOutcomes(samples_per_block),
          wok \in AllocOutcomes(samples_per_block),
          pok \in PlanOutcomes(samples_per_block) :
        LET arrays == (IF iok THEN {"fft_in"} ELSE {})
                        \cup (IF ook THEN {"fft_out"} ELSE {})
                        \cup (IF wok THEN {"window"} ELSE {})
        IN  IF ~cok THEN
                /\ AcquireRelease({}, <<"infile", "outfile">>)
                /\ Return(1, "alloc_config")
                /\ UNCHANGED window
            ELSE IF ~iok \/ ~ook \/ ~wok THEN
                /\ AcquireRelease({"config"} \cup arrays,
                                  <<"config", "infile", "outfile">>)
                /\ Return(1, "alloc_fft")
                /\ UNCHANGED window
            ELSE IF ~pok THEN
                /\ AcquireRelease({"config"} \cup arrays,
                        <<"fft_in", "fft_out", "window", "config",
                          "infile", "outfile">>)
                /\ Return(1, "plan")
                /\ UNCHANGED window
            ELSE
                /\ AcquireRelease({"config", "plan"} \cup arrays, <<>>)
                /\ window' = HanningQuarters(samples_per_block)
                /\ Goto("alloc")
    /\ UNCHANGED <<cfgVars, readVars, loopVars, outVars, fft_in,
                   power_spectrum>>

\* free_fftw(data) for data that is not NULL
FreeFftw == <<"plan", "fft_in", "fft_out", "window", "config">>

\* malloc(samples_per_block * sizeof(float))
SpAlloc ==
    /\ tool = "spectrogram" /\ pc = "alloc"
    /\ \E ok \in AllocOutcomes(samples_per_block) :
        IF ok THEN
            /\ AcquireRelease({"block"}, <<>>)
            /\ buffer' = Fresh(samples_per_block)
            /\ Goto("read")
        ELSE
            /\ AcquireRelease({}, FreeFftw \o <<"infile", "outfile">>)
            /\ Return(1, "alloc")
            /\ UNCHANGED buffer
    /\ UNCHANGED <<cfgVars, input, read_result, loopVars, outVars, fftVars>>

\* fread(block, sizeof(float), samples_per_block, infile) and the break
SpRead ==
    /\ tool = "spectrogram" /\ pc = "read"
    /\ FreadFloats(samples_per_block)
    /\ IF ~FullRead(read_result', samples_per_block) THEN Goto("cleanup")
       ELSE Goto("process")
    /\ UNCHANGED <<cfgVars, resVars, loopVars, outVars, fftVars>>

\* the window with every weight multiplied by the block's sample
WindowTimesBlock(w, b) == [i \in 1..Len(w) |-> w[i] * b[i]]
\* process_block(): data->window is read, never written
WindowAfterBlock(w, b) == w

\* process_block() and num_blocks++
SpProcess ==
    /\ tool = "spectrogram" /\ pc = "process"
    /\ fft_in' = WindowedInput(buffer, window, samples_per_block)
    /\ window' = WindowAfterBlock(window, buffer)
    /\ out_raw' = out_raw \o SpectrogramRow(fft_in', samples_per_block)
    /\ \E wok \in BOOLEAN : write_failed' = (write_failed \/ ~wok)
    /\ num_blocks' = num_blocks + 1
    /\ Goto("read")
    /\ UNCHANGED <<cfgVars, resVars, readVars, number_of_blocks, block_sum,
                   out_sum, power_spectrum>>

SpCleanup ==
    /\ tool = "spectrogram" /\ pc = "cleanup"
    /\ AcquireRelease({}, <<"block">> \o FreeFftw \o <<"infile", "outfile">>)
    /\ Return(0, "end_of_stream")
    /\ UNCHANGED <<cfgVars, readVars, loopVars, outVars, fftVars>>

Spectrogram ==
    \/ SpArgs \/ SpOpenInput \/ SpOpenOutput \/ SpInitFftw \/ SpAlloc
    \/ SpRead \/ SpProcess \/ SpCleanup

Next ==
    \/ Amplitude \/ Power \/ AmplitudeSum \/ PowerSpectrum
    \/ IntegratedPowerSpectrum \/ Spectrogram

Spec == Init /\ [][Next]_vars


(***************************************************************************)
(* Reference values, computed from the input file alone.                  *)
(***************************************************************************)
\* Floats one block takes from the file in the running tool.
BlockFloats ==
    IF tool = "spectrogram" THEN samples_per_block ELSE 2 * samples_per_block

\* The k-th block of the file as read so far (k = 1, 2, ...).
BlockOf(k) == SubSeq(input, (k - 1) * BlockFloats + 1, k * BlockFloats)

\* Complete blocks of 2*N floats in the file.
CompleteBlocks == file_len \div (2 * samples_per_block)

\* The line value a summed tool owes block k.
RefBlockValue(k) ==
    IF tool = "power" THEN PowerBlockSum(0, BlockOf(k), samples_per_block)
    ELSE AmplitudeBlockSum(BlockOf(k), samples_per_block)

\* The binary row a tool owes block k.
RefRow(k) ==
    LET n == samples_per_block
    IN  CASE tool = "amplitude" ->
                [i \in 1..n |-> F32(AmplitudeOf(BlockOf(k), i))]
          [] tool = "power" ->
                [i \in 1..n |-> F32(PowerOf(BlockOf(k), i))]
          [] tool = "power_spectrum" ->
                PowerSpectrumRow(ToComplex(BlockOf(k), n), n)
          [] tool = "spectrogram" ->
                SpectrogramRow(
                    WindowedInput(BlockOf(k), HanningQuarters(n), n), n)

RowLen ==
    IF tool = "spectrogram" THEN samples_per_block \div 2 + 1
    ELSE samples_per_block

HeaderLen == IF tool = "spectrogram" THEN 1 ELSE 0

WritesRaw ==
    \/ tool \in {"amplitude", "power_spectrum", "spectrogram"}
    \/ tool = "power" /\ WantsRaw(output_type)

WritesSumPerBlock ==
    \/ tool = "amplitude_sum"
    \/ tool = "power" /\ WantsSum(output_type)

\* Sum over the first k blocks of the integrated tool's power in bin i.
RefBinSum(i, k) ==
    SumSeq([b \in 1..k |->
        IntegratedBinPower(ToComplex(BlockOf(b), samples_per_block),
                           samples_per_block)[i]])

(***************************************************************************)
(* C1.  Tools whose loop is driven by the read result (amplitude, power,  *)
(* integrated power spectrum), N >= 2, a file of k*2N + r floats,         *)
(* 0 <= r < 2N: once the short read has happened exactly k blocks were    *)
(* consumed, the counter is k, the sinks and the accumulator hold what    *)
(* the first k blocks produce and nothing of the r trailing floats, and   *)
(* the run returns 0 (the integrated tool may still fail to open its      *)
(* output file, which it opens after the loop).                           *)
(***************************************************************************)
ReadDriven == {"amplitude", "power", "integrated_power_spectrum"}

ShortReadSeen ==
    read_result >= 0 /\ read_result # 2 * samples_per_block

C1_TrailingFloatsDropped ==
    (tool \in ReadDriven /\ samples_per_block >= 2 /\ ShortReadSeen) =>
        LET n == samples_per_block
            k == CompleteBlocks
        IN  /\ num_blocks = k
            /\ read_result = file_len % (2 * n)
            /\ Len(input) = file_len
            /\ tool = "amplitude" =>
                    out_raw = [j \in 1..(k * n) |-> F32(AmplitudeOf(input, j))]
            /\ tool = "power" =>
                    /\ out_raw = IF WantsRaw(output_type)
                                 THEN [j \in 1..(k * n) |-> F32(PowerOf(input, j))]
                                 ELSE <<>>
                    /\ Len(out_sum) = IF WantsSum(output_type) THEN k ELSE 0
            /\ tool = "integrated_power_spectrum" =>
                    \A i \in 1..n : power_spectrum[i].num = RefBinSum(i, k)
            /\ pc = "done" =>
                    \/ status = 0 /\ exit_cause = "end_of_stream"
                    \/ tool = "integrated_power_spectrum"
                        /\ exit_cause = "open_out"

C1_Witness ==
    /\ tool = "amplitude" /\ samples_per_block = 2 /\ file_len = 9
    /\ pc = "done" /\ status = 0 /\ num_blocks = 2 /\ Len(out_raw) = 4

(***************************************************************************)
(* C2.  In every tool the block loop ends only through a read of fewer    *)
(* than 2N floats, and such a read never gives an error exit.             *)
(***************************************************************************)
AfterLoop ==
    \/ pc \in {"cleanup", "average", "save"}
    \/ pc = "done"
        /\ exit_cause \in {"end_of_stream", "loop_bound", "short_read"}

C2_ShortReadSoleTermination ==
    /\ AfterLoop => read_result >= 0 /\ read_result # BlockFloats
                    /\ exit_cause # "loop_bound"
    /\ exit_cause = "short_read" => status = 0

(***************************************************************************)
(* C3.  In every tool a consumed block takes exactly 2N floats: between   *)
(* blocks the stream position is 2N times the block counter, and the      *)
(* block being processed is the 2N floats that follow.                    *)
(***************************************************************************)
C3_BlockIsTwoNFloats ==
    LET w == 2 * samples_per_block
    IN  /\ pc = "read" => Len(input) = num_blocks * w
        /\ pc = "process" =>
                /\ Len(input) = (num_blocks + 1) * w
                /\ buffer = SubSeq(input, num_blocks * w + 1, (num_blocks + 1) * w)

(***************************************************************************)
(* C4.  In every tool a samples_per_block below 2 is rejected with an     *)
(* error exit before any file is opened, any buffer allocated or any      *)
(* block read, and no run reaches the block loop with such a value.       *)
(***************************************************************************)
SizeTTools == {"amplitude", "power", "spectrogram"}

SpbBelowTwo ==
    IF tool \in SizeTTools THEN ULess(samples_per_block, 2)
    ELSE samples_per_block < 2

NothingAcquiredYet ==
    /\ held = {}
    /\ \A r \in Resources : freed[r] = 0
    /\ buffer = <<>>
    /\ read_result = -1

C4_InvalidSpbRejectedBeforeIO ==
    /\ exit_cause = "invalid_spb" => status # 0 /\ NothingAcquiredYet
    /\ pc \in {"read", "process"} => ~SpbBelowTwo
    /\ pc = "done" /\ status = 0 => ~SpbBelowTwo

(***************************************************************************)
(* C5.  Whenever main returns with a failure status, every resource       *)
(* acquired in the run has been released, and none more than once.        *)
(***************************************************************************)
C5_FatalExitReleasesAll ==
    pc = "done" /\ status # 0 =>
        /\ held = {}
        /\ \A r \in Resources : freed[r] <= 1

(***************************************************************************)
(* C6.  A failed write to an output sink is fatal: once a write has       *)
(* failed the run has stopped with an error status (no further block is   *)
(* read or processed).                                                    *)
(***************************************************************************)
C6_WriteFailureIsFatal ==
    write_failed => pc = "done" /\ status # 0


(***************************************************************************)
(* C7.  Summed power and summed amplitude: the j-th emitted line carries  *)
(* block index j-1 and the value of the j-th complete block of the        *)
(* input; one line per consumed block, none skipped, doubled or out of    *)
(* order.                                                                 *)
(***************************************************************************)
C7_BlockIndexOrder ==
    tool \in {"power", "amplitude_sum"} =>
        /\ \A j \in 1..Len(out_sum) :
                /\ out_sum[j].index = j - 1
                /\ out_sum[j].num = RefBlockValue(j)
        /\ WritesSumPerBlock => Len(out_sum) = num_blocks
        /\ (pc = "done" /\ status = 0 /\ samples_per_block > 0) =>
                num_blocks = CompleteBlocks

C7_Witness ==
    /\ tool = "power" /\ pc = "done" /\ status = 0
    /\ Len(out_sum) = 2
    /\ out_sum[1].num # out_sum[2].num

(***************************************************************************)
(* C8.  Power tool: the value written to the summed sink for block k is   *)
(* the sum of the N values written to the raw sink for block k, within a  *)
(* 'both' run and between a 'sum' run and a 'raw' run on the same input   *)
(* (both sinks are the same functions of the input); nothing of block     *)
(* k-1 is carried into block k.                                           *)
(***************************************************************************)
C8_SumMatchesRaw ==
    tool = "power" =>
        LET n == samples_per_block
        IN  /\ WantsRaw(output_type) =>
                    \A j \in 1..Len(out_raw) : out_raw[j] = F32(PowerOf(input, j))
            /\ WantsSum(output_type) =>
                    \A k \in 1..Len(out_sum) :
                        out_sum[k].num =
                            SumSeq([i \in 1..n |-> PowerOf(input, (k - 1) * n + i)])
            /\ output_type = "OUTPUT_BOTH" =>
                    /\ Len(out_raw) = n * Len(out_sum)
                    /\ \A k \in 1..Len(out_sum) :
                        out_sum[k].num =
                            SumSeq([i \in 1..n |-> out_raw[(k - 1) * n + i].v])

C8_Witness ==
    /\ tool = "power" /\ output_type = "OUTPUT_BOTH" /\ pc = "done"
    /\ Len(out_sum) = 2
    /\ out_sum[1].num > 0 /\ out_sum[2].num > 0

(***************************************************************************)
(* C9.  Integrated power spectrum: every accumulator bin starts at zero,  *)
(* holds after each consumed block the sum of the per-bin powers (each    *)
(* non-negative) of the blocks consumed so far, and the line written for  *)
(* a bin after B >= 1 blocks is that sum divided by B.                    *)
(***************************************************************************)
C9_AccumulatorIsMean ==
    (tool = "integrated_power_spectrum" /\ power_spectrum # <<>>) =>
        LET n == samples_per_block
        IN  /\ Len(power_spectrum) = n
            /\ \A i \in 1..n :
                    /\ power_spectrum[i].num = RefBinSum(i, num_blocks)
                    /\ power_spectrum[i].num >= 0
                    /\ pc \in {"open_in", "read", "process", "average"} =>
                            power_spectrum[i].den = 1
                    /\ \A b \in 1..num_blocks :
                            RefBinSum(i, b) >= RefBinSum(i, b - 1)
            /\ out_sum # <<>> =>
                    /\ Len(out_sum) = n
                    /\ \A i \in 1..n :
                            /\ out_sum[i].index = i - 1
                            /\ out_sum[i].num = RefBinSum(i, CompleteBlocks)
                            /\ out_sum[i].den =
                                IF CompleteBlocks >= 1 THEN CompleteBlocks ELSE 1

C9_Witness ==
    /\ tool = "integrated_power_spectrum" /\ pc = "done" /\ status = 0
    /\ samples_per_block = 2 /\ num_blocks = 2
    /\ \E i \in 1..Len(out_sum) : out_sum[i].num > 0 /\ out_sum[i].den = 2

(***************************************************************************)
(* C10.  Streaming tools work block by block: when block k+1 is read      *)
(* every output of blocks 1..k has been written and nothing else, the     *)
(* sample buffer holds exactly the block being processed, the transform   *)
(* input holds the last processed block, and what is written for a block  *)
(* is a function of that block alone.                                     *)
(***************************************************************************)
StreamingTools ==
    {"amplitude", "power", "amplitude_sum", "power_spectrum", "spectrogram"}

RefFftIn(k) ==
    IF tool = "spectrogram"
    THEN WindowedInput(BlockOf(k), HanningQuarters(samples_per_block),
                       samples_per_block)
    ELSE ToComplex(BlockOf(k), samples_per_block)

C10_BlockSequential ==
    (tool \in StreamingTools /\ pc \in {"read", "process"}) =>
        /\ Len(input) = BlockFloats * (num_blocks + (IF pc = "process" THEN 1 ELSE 0))
        /\ pc = "process" => buffer = BlockOf(num_blocks + 1)
        /\ WritesRaw =>
                /\ Len(out_raw) = HeaderLen + num_blocks * RowLen
                /\ \A k \in 1..num_blocks :
                        SubSeq(out_raw, HeaderLen + (k - 1) * RowLen + 1,
                               HeaderLen + k * RowLen) = RefRow(k)
        /\ ~WritesRaw => out_raw = <<>>
        /\ WritesSumPerBlock =>
                /\ Len(out_sum) = num_blocks
                /\ \A k \in 1..num_blocks : out_sum[k].num = RefBlockValue(k)
        /\ ~WritesSumPerBlock => out_sum = <<>>
        /\ (tool \in {"power_spectrum", "spectrogram"} /\ num_blocks >= 1) =>
                fft_in = RefFftIn(num_blocks)

C10_Witness ==
    /\ tool = "spectrogram" /\ samples_per_block = 4 /\ pc = "process"
    /\ num_blocks = 1
    /\ buffer # BlockOf(1)

(***************************************************************************)
(* C11.  Spectrogram: the output stream holds nothing but rows of N/2+1   *)
(* float32 values, one per consumed block: after k consumed blocks it     *)
(* holds exactly k*(N/2+1) float32 values, and nothing precedes the       *)
(* first row.                                                             *)
(***************************************************************************)
C11_SpectrogramOnlyRows ==
    (tool = "spectrogram" /\ "outfile" \in held /\ pc # "open_out") =>
        /\ Len(out_raw) = num_blocks * (samples_per_block \div 2 + 1)
        /\ \A j \in 1..Len(out_raw) : out_raw[j].t # "int"

(***************************************************************************)
(* C12.  Amplitude tool: for every complete block it emits N values in    *)
(* sample order, value i being the non-negative root of I_i^2 + Q_i^2:    *)
(* its square is the value the power tool's raw sink holds for the same   *)
(* sample.  A sample with I = Q = 0 gives exactly 0 in both tools, and    *)
(* the block (3,4),(0,0) with N = 2 gives the amplitudes 5, 0.            *)
(***************************************************************************)
\* I^2 + Q^2 of the j-th sample of the file, from the floats read so far.
SampleNorm(j) == input[2 * j - 1] * input[2 * j - 1] + input[2 * j] * input[2 * j]

C12_AmplitudeIsRootOfPower ==
    LET n == samples_per_block
    IN  /\ tool = "amplitude" =>
            /\ Len(out_raw) = n * num_blocks
            /\ \A j \in 1..Len(out_raw) :
                    /\ out_raw[j].t = "f32"
                    /\ out_raw[j].v >= 0
                    /\ out_raw[j].v * out_raw[j].v = SampleNorm(j)
                    /\ SampleNorm(j) = 0 => out_raw[j].v = 0
            /\ \A k \in 1..num_blocks :
                    (n = 2 /\ BlockOf(k) = <<3, 4, 0, 0>>) =>
                        SubSeq(out_raw, 2 * k - 1, 2 * k) = <<F32(5), F32(0)>>
        /\ (tool = "power" /\ WantsRaw(output_type)) =>
            /\ Len(out_raw) = n * num_blocks
            /\ \A j \in 1..Len(out_raw) : out_raw[j] = F32(SampleNorm(j))

C12_Witness ==
    /\ tool = "amplitude" /\ pc = "done" /\ status = 0
    /\ samples_per_block = 2 /\ num_blocks = 2
    /\ BlockOf(2) = <<3, 4, 0, 0>>
    /\ out_raw[3] = F32(5) /\ out_raw[4] = F32(0)

(***************************************************************************)
(* C13.  Power spectrum tool: every consumed block gives exactly N        *)
(* values, value b being |X_b|^2 of the unscaled forward DFT X of that    *)
(* block's N samples I_i + j*Q_i and of nothing else (no averaging or     *)
(* accumulation over blocks).  Checked against the transform of the       *)
(* block and against what an unscaled DFT must satisfy: bin 0 is          *)
(* |sum of the samples|^2, and the N values add up to N times the sum of  *)
(* I^2 + Q^2 over the block.  For N = 4 the impulse block I = 1,0,0,0,    *)
(* Q = 0,0,0,0 gives 1 in all four bins.                                  *)
(***************************************************************************)
\* The values (without their type tag) written for block k.
RowValues(k) ==
    [b \in 1..samples_per_block |->
        out_raw[(k - 1) * samples_per_block + b].v]

ImpulseBlock == <<1, 0, 0, 0, 0, 0, 0, 0>>

C13_PowerSpectrumIsDftNorm ==
    tool = "power_spectrum" =>
        LET n == samples_per_block
        IN  /\ Len(out_raw) = n * num_blocks
            /\ \A k \in 1..num_blocks :
                LET blk == BlockOf(k)
                    X == ForwardDft(ToComplex(blk, n), n)
                    sumI == SumSeq([i \in 1..n |-> blk[2 * i - 1]])
                    sumQ == SumSeq([i \in 1..n |-> blk[2 * i]])
                    energy == SumSeq([i \in 1..(2 * n) |-> blk[i] * blk[i]])
                IN  /\ \A b \in 1..n :
                        out_raw[(k - 1) * n + b] =
                            F32(X[b][1] * X[b][1] + X[b][2] * X[b][2])
                    /\ RowValues(k)[1] = sumI * sumI + sumQ * sumQ
                    /\ SumSeq(RowValues(k)) = n * energy
                    /\ (n = 4 /\ blk = ImpulseBlock) =>
                            RowValues(k) = <<1, 1, 1, 1>>

C13_Witness ==
    /\ tool = "power_spectrum" /\ pc = "done" /\ status = 0
    /\ samples_per_block = 4 /\ num_blocks = 1
    /\ input = ImpulseBlock
    /\ out_raw = <<F32(1), F32(1), F32(1), F32(1)>>

\* A second witness of the same claim: two different blocks, two rows.
C13_TwoBlocks ==
    /\ tool = "power_spectrum" /\ pc = "done" /\ status = 0
    /\ samples_per_block = 2 /\ num_blocks = 2
    /\ BlockOf(1) # BlockOf(2) /\ RowValues(1) # RowValues(2)

(***************************************************************************)
(* C14.  Integrated power spectrum: what one block adds to accumulator    *)
(* bin b is the square of the real part of bin b of the transform of the  *)
(* whole block of N samples I_i + j*Q_i, so that the accumulator after    *)
(* the consumed blocks is the sum of those squares.                       *)
(***************************************************************************)
\* Re(X_b)^2 for the forward transform X of block k, b = 1..N.
RealDftSquares(k) ==
    LET X == ForwardDft(ToComplex(BlockOf(k), samples_per_block),
                        samples_per_block)
    IN  [b \in 1..samples_per_block |-> X[b][1] * X[b][1]]

C14_IntegratedUsesWholeBlock ==
    (tool = "integrated_power_spectrum" /\ power_spectrum # <<>>) =>
        \A b \in 1..samples_per_block :
            power_spectrum[b].num =
                SumSeq([k \in 1..num_blocks |-> RealDftSquares(k)[b]])

(***************************************************************************)
(* C15.  Every text sink (summed power, summed amplitude, integrated      *)
(* power spectrum) holds only lines "<index> TAB <value>": the separator  *)
(* of every line is one TAB, with one line per block in the summed tools  *)
(* and one per bin in the integrated tool.                                *)
(***************************************************************************)
C15_TextLinesAreTabSeparated ==
    /\ \A j \in 1..Len(out_sum) :
            out_sum[j].sep = "\t" /\ out_sum[j].index = j - 1
    /\ (tool \in {"power", "amplitude_sum"} /\ WritesSumPerBlock) =>
            Len(out_sum) = num_blocks
    /\ (tool = "integrated_power_spectrum" /\ out_sum # <<>>) =>
            Len(out_sum) = samples_per_block

(***************************************************************************)
(* C16.  Power tool: the sinks follow the output type the command line    *)
(* selects.  'raw' selects the raw sink alone, 'sum', no --output-type    *)
(* and an unrecognised word select the summed sink alone, 'both' selects  *)
(* both.  A selected sink is open during the block loop and holds N       *)
(* values (raw) or one line (summed) per consumed block; a sink that is   *)
(* not selected is never opened, written or closed.                       *)
(***************************************************************************)
\* The word after the first "--output-type" that has a word after it, in
\* the command line av of ac words (argv[0] counted); "" without one.
OptionWord(av, ac) ==
    IF \E i \in 1..(ac - 2) : av[i] = "--output-type"
    THEN LET first == CHOOSE i \in 1..(ac - 2) :
                        /\ av[i] = "--output-type"
                        /\ \A h \in 1..(i - 1) : av[h] # "--output-type"
         IN  av[first + 1]
    ELSE ""

SelectsRaw(word) == word \in {"raw", "both"}
SelectsSum(word) == word # "raw"

C16_SinksFollowType ==
    tool = "power" =>
        /\ WantsRaw(output_type) =>
                /\ Len(out_raw) = samples_per_block * num_blocks
                /\ pc \in {"read", "process", "cleanup"} => "outfile" \in held
        /\ ~WantsRaw(output_type) =>
                /\ out_raw = <<>>
                /\ "outfile" \notin held /\ freed["outfile"] = 0
        /\ WantsSum(output_type) =>
                /\ Len(out_sum) = num_blocks
                /\ pc \in {"read", "process", "cleanup"} => "sumfile" \in held
        /\ ~WantsSum(output_type) =>
                /\ out_sum = <<>>
                /\ "sumfile" \notin held /\ freed["sumfile"] = 0
        /\ freed["outfile"] <= 1 /\ freed["sumfile"] <= 1

C16_TypeFollowsCommandLine ==
    tool = "power" =>
        IF pc = "args" /\ pc' = "open_in"
        THEN /\ WantsRaw(output_type') = SelectsRaw(OptionWord(argv, argc))
             /\ WantsSum(output_type') = SelectsSum(OptionWord(argv, argc))
        ELSE output_type' = output_type

SpbSettled ==
    IF tool = "power"
    THEN pc \notin {"args", "open_in", "spb"}
            /\ exit_cause \notin {"usage", "open_in"}
    ELSE pc # "args" /\ exit_cause \notin {"usage", "no_field"}

C17_ArgumentOverridesFileName ==
    SpbSettled =>
        IF argc >= 3
        THEN samples_per_block = Atoi(argv[2])
        ELSE samples_per_block = (IF argv[1] = GoodName THEN 2 ELSE 0)

(***************************************************************************)
(* C18.  Spectrogram: the window is computed once, in init_fftw, before   *)
(* the first block is read, and no later step changes it: the N weights   *)
(* applied to block k are those applied to the first block, for every k.  *)
(***************************************************************************)
\* Four times the Hanning weights 0.5*(1 - cos(2*pi*i/(N-1))) for N = 2, 4.
HanningTable(n) == IF n = 2 THEN <<0, 0>> ELSE <<0, 3, 3, 0>>

C18_WindowState ==
    (tool = "spectrogram" /\ samples_per_block \in {2, 4}) =>
        /\ window = <<>> => input = <<>> /\ num_blocks = 0
        /\ pc \in {"alloc", "read", "process", "cleanup"} =>
                window = HanningTable(samples_per_block)
        /\ window # <<>> =>
                /\ window = HanningTable(samples_per_block)
                /\ \A k \in 1..num_blocks :
                        SubSeq(out_raw, 1 + (k - 1) * RowLen + 1, 1 + k * RowLen)
                            = SpectrogramRow(
                                WindowedInput(BlockOf(k), window,
                                              samples_per_block),
                                samples_per_block)

C18_WindowStep ==
    tool = "spectrogram" =>
        /\ window # <<>> => window' = window
        /\ window' # window => pc = "init_fft" /\ input = <<>>

C18_WindowComputedOnce ==
    [](C18_WindowState) /\ [][C18_WindowStep]_vars

C18_Witness ==
    /\ tool = "spectrogram" /\ pc = "done" /\ status = 0
    /\ samples_per_block = 4 /\ num_blocks = 2
    /\ window = <<0, 3, 3, 0>>
    /\ out_raw[5].v > 0 /\ BlockOf(2) # BlockOf(1)

(***************************************************************************)
(* C19.  Integrated power spectrum, input without a complete block        *)
(* (fewer than 2N floats, the empty file included): the loop consumes     *)
(* nothing, the accumulator is not divided by the block count, and the    *)
(* run writes exactly N lines, indices 0..N-1, all of value zero, and     *)
(* returns 0 (provided the output file can be opened).                    *)
(***************************************************************************)
C19_NoCompleteBlock ==
    (/\ tool = "integrated_power_spectrum"
     /\ samples_per_block >= 1
     /\ file_len < 2 * samples_per_block) =>
        /\ num_blocks = 0
        /\ pc # "process"
        /\ \A i \in 1..Len(power_spectrum) :
                power_spectrum[i] = [num |-> 0, den |-> 1]
        /\ (pc = "done" /\ exit_cause = "end_of_stream") =>
                /\ status = 0
                /\ out_sum = [i \in 1..samples_per_block |->
                                [index |-> i - 1, num |-> 0, den |-> 1,
                                 sep |-> " "]]
        /\ (pc = "done" /\ read_result >= 0) =>
                exit_cause \in {"end_of_stream", "open_out"}
        /\ ~(pc = "done" /\ exit_cause = "end_of_stream") => out_sum = <<>>

C19_Witness ==
    /\ tool = "integrated_power_spectrum" /\ pc = "done" /\ status = 0
    /\ samples_per_block = 2 /\ file_len = 3 /\ read_result = 3
    /\ Len(out_sum) = 2 /\ out_sum[2].num = 0 /\ out_sum[2].index = 1

\* The same for the empty file.
C19_EmptyFile ==
    /\ tool = "integrated_power_spectrum" /\ pc = "done" /\ status = 0
    /\ samples_per_block = 4 /\ file_len = 0 /\ read_result = 0
    /\ Len(out_sum) = 4

(***************************************************************************)
(* C20.  Termination: for every finite input and every samples_per_block  *)
(* a tool accepts, the block loop ends and the run reaches its cleanup    *)
(* and returns.  Stated on finite runs: every iteration that goes on      *)
(* consumes a full block, which strictly lowers the number of unread      *)
(* floats (never below zero); and a run stops nowhere but at a return     *)
(* from main.                                                             *)
(***************************************************************************)
Unread == file_len - Len(input)

\* One step of the block loop lowers Unread or leaves the loop.
C20_LoopStep ==
    /\ (pc = "read" /\ pc' = "process") => Unread' < Unread /\ Unread' >= 0
    /\ (pc = "read" /\ pc' # "process") =>
            pc' \in {"cleanup", "average", "done"}
    /\ pc = "process" => pc' \in {"read", "crashed"} /\ Unread' = Unread

\* The run has returned from main, or can take a step.
C20_ReturnsOrRuns == pc = "done" \/ ENABLED Next

C20_LoopTerminates ==
    [](C20_ReturnsOrRuns) /\ [][C20_LoopStep]_vars

\* The loop part alone, under weak fairness of the program's steps (a
\* running process is scheduled again): a run that is in the loop leaves it.
FairSpec == Spec /\ WF_vars(Next)

C20_LoopIsLeft ==
    [][C20_LoopStep]_vars
        /\ (pc \in {"read", "process"} ~> pc \notin {"read", "process"})

(***************************************************************************)
(* C21.  Power tool: taking the "--output-type TYPE" pair out of the      *)
(* argument list keeps the other arguments in their order and lowers the  *)
(* argument count by exactly two, wherever the pair stands; only the      *)
(* first "--output-type" that has a word after it is taken.  The run      *)
(* then goes on as it would have without the pair: with the same input    *)
(* file and samples_per_block, and with the usage exit when nothing but   *)
(* the program name is left.                                              *)
(***************************************************************************)
HasPair(av, ac) == \E i \in 1..(ac - 2) : av[i] = "--output-type"

FirstPair(av, ac) ==
    CHOOSE i \in 1..(ac - 2) :
        /\ av[i] = "--output-type"
        /\ \A h \in 1..(i - 1) : av[h] # "--output-type"

\* The arguments argv[1..argc-1] with the two words at i, i+1 left out.
WithoutPair(av, ac, i) ==
    [j \in 1..(ac - 3) |-> IF j < i THEN av[j] ELSE av[j + 2]]

\* The option loop leaves the command line without its first pair.
C21_RemovalStep ==
    (tool = "power" /\ pc = "args") =>
        IF HasPair(argv, argc)
        THEN LET clean == WithoutPair(argv, argc, FirstPair(argv, argc))
             IN  /\ argc' = argc - 2
                 /\ Len(clean) = argc' - 1
                 /\ \A j \in 1..Len(clean) : argv'[j] = clean[j]
        ELSE argc' = argc /\ argv' = argv

\* After the option loop the run does what it does on the words left.
C21_AsIfAbsentStep ==
    (tool = "power" /\ pc = "args") =>
        IF argc' < 2 THEN pc' = "done" /\ exit_cause' = "usage"
        ELSE pc' = "open_in"

C21_AsIfAbsentState ==
    (tool = "power" /\ SpbSettled) =>
        /\ argc >= 2
        /\ samples_per_block =
                IF argc >= 3 THEN Atoi(argv[2])
                ELSE (IF argv[1] = GoodName THEN 2 ELSE 0)

C21_PairRemoval ==
    /\ [][C21_RemovalStep /\ C21_AsIfAbsentStep]_vars
    /\ [](C21_AsIfAbsentState)

\* The same for command lines that name an input file beside the pair.
NamesInputFile == argc >= 2 /\ (HasPair(argv, argc) => argc >= 4)

C21_PairRemovalWithInputFile ==
    /\ [][(pc = "args" /\ NamesInputFile) =>
            (C21_RemovalStep /\ C21_AsIfAbsentStep)]_vars
    /\ [](C21_AsIfAbsentState \/ argv[1] = "--output-type")

=============================================================================
